---------------------------- MODULE Spec2Model ----------------------------
(***************************************************************************)
(* Mazzura wardrobe backend: the outfit generator of main.py               *)
(* (generate_outfit and its closure pick_from), the wardrobe insert        *)
(* endpoint, and the two collections they touch.                           *)
(*                                                                         *)
(* Python str values are sequences of one-character strings, so that       *)
(* str.lower() and the `in` substring test are computed, not assumed.      *)
(* Python None is a value distinct from every str of the model.            *)
(***************************************************************************)
EXTENDS Integers, Sequences, FiniteSets, TLC

VARIABLES
    wardrobeitem,   \* collection "wardrobeitem": documents in insertion order
    outfit,         \* collection "outfit": documents in insertion order
    inflight,       \* per client: the generate call between its read and its insert
    last,           \* the last completed call: request, what it read, response
    cat_list,       \* pick_from: the bucket it is applied to
    req,            \* pick_from: the request it closes over
    picked          \* pick_from: its return value

vars == <<wardrobeitem, outfit, inflight, last, cat_list, req, picked>>

-----------------------------------------------------------------------------
(* Bounds *)

MaxBucket  == 3   \* longest bucket handed to pick_from
MaxItems   == 4   \* wardrobe documents stored when generate is called once
MaxOutfits == 2   \* outfit documents inserted in one behaviour
MaxShared  == 2   \* wardrobe documents inserted in one behaviour

-----------------------------------------------------------------------------
(* Python values *)

None     == <<"None">>        \* None where a str is expected
NoWarmth == 0 - 1             \* None where an int is expected (warmth)
NoDoc    == [none |-> TRUE]   \* None where a dict is expected

LowerOf ==
    [A |-> "a", B |-> "b", C |-> "c", D |-> "d", E |-> "e", F |-> "f",
     G |-> "g", H |-> "h", I |-> "i", J |-> "j", K |-> "k", L |-> "l",
     M |-> "m", N |-> "n", O |-> "o", P |-> "p", Q |-> "q", R |-> "r",
     S |-> "s", T |-> "t", U |-> "u", V |-> "v", W |-> "w", X |-> "x",
     Y |-> "y", Z |-> "z"]

\* str.lower()
Lower(s) == [i \in DOMAIN s |-> IF s[i] \in DOMAIN LowerOf THEN LowerOf[s[i]] ELSE s[i]]

\* the str test `s in t`
IsSubstr(s, t) == \E i \in 0..(Len(t) - Len(s)) : SubSeq(t, i + 1, i + Len(s)) = s

\* truth value of an Optional[str]: None and "" are falsy
Truthy(s) == s # None /\ s # <<>>

\* `s or dflt` on an Optional[str]
OrStr(s, dflt) == IF Truthy(s) THEN s ELSE dflt

\* sorted(s, key=...): ascending and stable; key[i] is the key of s[i]
sorted(s, key) ==
    LET Before(j, i) == key[j] < key[i] \/ (key[j] = key[i] /\ j < i)
        Rank(i) == 1 + Cardinality({j \in 1..Len(s) : Before(j, i)})
    IN  [p \in 1..Len(s) |-> s[CHOOSE i \in 1..Len(s) : Rank(i) = p]]

-----------------------------------------------------------------------------
(* Text literals of main.py *)

cold     == <<"c", "o", "l", "d">>
chilly   == <<"c", "h", "i", "l", "l", "y">>
hot      == <<"h", "o", "t">>
warm     == <<"w", "a", "r", "m">>
top      == <<"t", "o", "p">>
bottom   == <<"b", "o", "t", "t", "o", "m">>
footwear == <<"f", "o", "o", "t", "w", "e", "a", "r">>
outerwear == <<"o", "u", "t", "e", "r", "w", "e", "a", "r">>

-----------------------------------------------------------------------------
(* Request and document shapes *)

\* class Wardrobeitem: the fields main.py reads, and of those it only copies
\* (name, size, image_url, brand, price) the name
Wardrobeitem(owner_email, name, category, color, tags, warmth) ==
    [owner_email |-> owner_email, name |-> name, category |-> category,
     color |-> color, tags |-> tags, warmth |-> warmth]

\* class OutfitRequest
OutfitRequest(email, mood, weather, event) ==
    [email |-> email, mood |-> mood, weather |-> weather, event |-> event]

-----------------------------------------------------------------------------
(* pick_from *)

\* x.get("warmth") or 0
WarmthOf(x) == IF x.warmth = NoWarmth THEN 0 ELSE x.warmth

\* ColdKey with the sign dropped
ColdKeyAscending(x) == WarmthOf(x)

\* key=lambda x: -(x.get("warmth") or 0)
ColdKey(x) == 0 - WarmthOf(x)

\* key=lambda x: (x.get("warmth") or 0)
WarmKey(x) == WarmthOf(x)

\* the filter condition of `colored`
MoodHit(i, mood) ==
    \/ IsSubstr(Lower(OrStr(i.color, <<>>)), mood)
    \/ \E t \in 1..Len(i.tags) : IsSubstr(Lower(i.tags[t]), mood)

\* colored = [i for i in cat_list if ...]
colored(cl, mood) == SelectSeq(cl, LAMBDA i : MoodHit(i, mood))

\* FirstOf returning the other end of the bucket
LastOf(cl) == cl[Len(cl)]

\* the closing `return cat_list[0]`
FirstOf(cl) == cl[1]

\* the weather block of pick_from, NoDoc when it does not return
WeatherPick(cl, r) ==
    IF ~Truthy(r.weather) THEN NoDoc
    ELSE LET w == Lower(r.weather) IN
         IF w \in {cold, chilly} THEN sorted(cl, [i \in 1..Len(cl) |-> ColdKey(cl[i])])[1]
         ELSE IF w \in {hot, warm} THEN sorted(cl, [i \in 1..Len(cl) |-> WarmKey(cl[i])])[1]
         ELSE NoDoc

pick_from(cl, r) ==
    LET hits == colored(cl, Lower(r.mood))
        byWeather == WeatherPick(cl, r)
    IN  IF cl = <<>> THEN NoDoc
        ELSE IF Truthy(r.mood) /\ hits # <<>> THEN hits[1]
        ELSE IF byWeather # NoDoc THEN byWeather
        ELSE FirstOf(cl)

-----------------------------------------------------------------------------
(* The document store (database.py) *)

\* get_documents(collection, filter): the documents equal to the filter on
\* each of its fields, in insertion order
get_documents(coll, filter) ==
    SelectSeq(coll, LAMBDA d : \A k \in DOMAIN filter : d[k] = filter[k])

\* create_document(collection, data): the collection after the insert; the
\* store assigns the new document its _id
create_document(coll, data) == Append(coll, ("_id" :> (Len(coll) + 1)) @@ data)

Digits == <<"0", "1", "2", "3", "4", "5", "6", "7", "8", "9">>

\* str(inserted_id), the value create_document returns
RECURSIVE IdStr(_)
IdStr(n) == IF n < 10 THEN <<Digits[n + 1]>> ELSE IdStr(n \div 10) \o <<Digits[(n % 10) + 1]>>

-----------------------------------------------------------------------------
(* generate_outfit *)

\* WardrobeQuery with the owner left out of the filter
WardrobeQueryAll(r) == <<>>

\* the filter of the wardrobe read
WardrobeQuery(r) == [owner_email |-> r.email]

\* NoItems with the check left out
NoItemsNever(items) == FALSE

\* `if not items`
NoItems(items) == items = <<>>

\* CatKey without the lower()
CatKeyExact(it) == OrStr(it.category, <<>>)

\* cat = (it.get("category") or "").lower()
CatKey(it) == Lower(OrStr(it.category, <<>>))

\* by_cat.get(cat, [])
by_cat(items, cat) == SelectSeq(items, LAMBDA it : CatKey(it) = cat)

\* Slots with two labels exchanged
SlotsSwapped == <<top, footwear, bottom>>

\* for cat in ["top", "bottom", "footwear"]
Slots == <<top, bottom, footwear>>

\* {k: ... for k, v in sel.items() if k != "_id"}
Strip(d) == [k \in DOMAIN d \ {"_id"} |-> d[k]]

\* `if sel: selected.append(...)`
Appended(sel) == IF sel # NoDoc THEN <<Strip(sel)>> ELSE <<>>

\* WantsOuterwear without the weather condition
WantsOuterwearAlways(r) == TRUE

\* `req.weather and req.weather.lower() in ["cold", "chilly"]`
WantsOuterwear(r) == Truthy(r.weather) /\ Lower(r.weather) \in {cold, chilly}

RECURSIVE SlotPicks(_, _, _)
SlotPicks(items, r, n) ==
    IF n = 0 THEN <<>>
    ELSE SlotPicks(items, r, n - 1) \o Appended(pick_from(by_cat(items, Slots[n]), r))

selected(items, r) ==
    SlotPicks(items, r, Len(Slots))
      \o (IF WantsOuterwear(r) THEN Appended(pick_from(by_cat(items, outerwear), r)) ELSE <<>>)

\* f"Auto outfit - {req.mood or 'style'} / {req.weather or 'weather'}"
Title(r) ==
    <<"A", "u", "t", "o", " ", "o", "u", "t", "f", "i", "t", " ", "-", " ">>
      \o OrStr(r.mood, <<"s", "t", "y", "l", "e">>)
      \o <<" ", "/", " ">>
      \o OrStr(r.weather, <<"w", "e", "a", "t", "h", "e", "r">>)

\* outfit_doc = Outfit(...)
OutfitDoc(r, sel) ==
    [owner_email |-> r.email, title |-> Title(r), items |-> sel,
     mood |-> r.mood, weather |-> r.weather, event |-> r.event]

\* PersistOutfit replacing the owner's outfit of the same title instead of inserting
PersistOutfitUpsert(store, doc) ==
    IF \E i \in 1..Len(store) : store[i].owner_email = doc.owner_email /\ store[i].title = doc.title
      THEN [i \in 1..Len(store) |->
              IF store[i].owner_email = doc.owner_email /\ store[i].title = doc.title
                THEN ("_id" :> store[i]._id) @@ doc
                ELSE store[i]]
      ELSE create_document(store, doc)

\* inserted_id = create_document("outfit", outfit_doc)
PersistOutfit(store, doc) == create_document(store, doc)

\* what the handler answers on the items it read: the HTTPException status,
\* or 200 with the body's items and title
Respond(items, r) ==
    LET sel == selected(items, r) IN
    IF NoItems(items) THEN [status |-> 404, items |-> <<>>, title |-> None]
    ELSE IF sel = <<>> THEN [status |-> 400, items |-> <<>>, title |-> None]
    ELSE [status |-> 200, items |-> sel, title |-> OutfitDoc(r, sel).title]

-----------------------------------------------------------------------------
(* Inputs *)

\* the clients whose generate calls may be in flight together
Clients == {1, 2}

Pending == [pending |-> TRUE]     \* pick_from has not returned yet
Idle    == [pc |-> "idle"]        \* no generate call in flight
NoCall  == [status |-> 0]         \* no generate call has completed yet

\* buckets for pick_from: one category, every combination of the attributes it reads
PickLooks   == {<<None, <<>> >>, << <<"b", "l">>, <<>> >>, <<None, << <<"R">> >> >>}   \* color, tags
PickWarmths == {NoWarmth, 0, 1}
PickItems ==
    {Wardrobeitem(<<"a">>, <<"x">>, top, l[1], l[2], w) : l \in PickLooks, w \in PickWarmths}
PickBuckets ==
    UNION {{[i \in 1..n |-> ("_id" :> i) @@ f[i]] : f \in [1..n -> PickItems]} : n \in 0..MaxBucket}
PickMoods    == {None, <<>>, <<"B", "l">>, <<"O", "r">>}
PickWeathers == {None, <<"C", "o", "l", "d">>, chilly, <<"H", "O", "T">>, warm,
                 <<"r", "a", "i", "n", "y">>}
PickReqs == {OutfitRequest(<<"a">>, m, w, None) : m \in PickMoods, w \in PickWeathers}

-----------------------------------------------------------------------------
(* pick_from on its own: the inputs are drawn, then it is applied once *)

InitPick ==
    /\ wardrobeitem = <<>>
    /\ outfit = <<>>
    /\ inflight = [c \in Clients |-> Idle]
    /\ last = NoCall
    /\ cat_list \in PickBuckets
    /\ req \in PickReqs
    /\ picked = Pending

Pick ==
    /\ picked = Pending
    /\ picked' = pick_from(cat_list, req)
    /\ UNCHANGED <<wardrobeitem, outfit, inflight, last, cat_list, req>>

NextPick == Pick

SpecPick == InitPick /\ [][NextPick]_vars

-----------------------------------------------------------------------------
(* What the selection rules promise, stated on positions of the bucket *)

\* the item has a color, or a tag, that occurs in the mood text
CarriesMood(i, mood) ==
    \/ Truthy(i.color) /\ IsSubstr(Lower(i.color), Lower(mood))
    \/ \E t \in 1..Len(i.tags) : IsSubstr(Lower(i.tags[t]), Lower(mood))

MoodPositions(cl, mood) == {k \in 1..Len(cl) : CarriesMood(cl[k], mood)}

Min(S) == CHOOSE k \in S : \A j \in S : k <= j

\* absent warmth counts as 0
Warmth0(x) == IF x.warmth = NoWarmth THEN 0 ELSE x.warmth

\* the earliest position of maximal, of minimal warmth
FirstWarmest(cl) ==
    Min({k \in 1..Len(cl) : \A j \in 1..Len(cl) : Warmth0(cl[j]) <= Warmth0(cl[k])})
FirstCoolest(cl) ==
    Min({k \in 1..Len(cl) : \A j \in 1..Len(cl) : Warmth0(cl[k]) <= Warmth0(cl[j])})

IsColdText(w) == w # None /\ Lower(w) \in {cold, chilly}
IsHotText(w)  == w # None /\ Lower(w) \in {hot, warm}

\* the pick the weather rule alone prescribes
WeatherRule(cl, w) ==
    IF IsColdText(w) THEN cl[FirstWarmest(cl)]
    ELSE IF IsHotText(w) THEN cl[FirstCoolest(cl)]
    ELSE cl[1]

Returned == picked # Pending /\ cat_list # <<>>

\* C4: when some item of the bucket carries a color or a tag that occurs in
\* the mood, pick_from returns the first such item, whatever the weather and
\* the warmth values are.
C4_MoodMatchFirst ==
    (Returned /\ req.mood # None /\ MoodPositions(cat_list, req.mood) # {})
        => picked = cat_list[Min(MoodPositions(cat_list, req.mood))]

\* C5: when no item of the bucket carries a color or a tag that occurs in the
\* mood, a present mood does not decide the pick: pick_from returns what the
\* weather rule prescribes (warmest when cold, coolest when hot, else first).
C5_MoodFallsThrough ==
    (Returned /\ req.mood # None /\ MoodPositions(cat_list, req.mood) = {})
        => picked = WeatherRule(cat_list, req.weather)

\* C6: with no mood, cold/chilly weather returns the earliest item of maximal
\* warmth and hot/warm weather the earliest item of minimal warmth, absent
\* warmth counting as 0.
C6_WeatherRule ==
    (Returned /\ req.mood = None)
        => /\ IsColdText(req.weather) => picked = cat_list[FirstWarmest(cat_list)]
           /\ IsHotText(req.weather)  => picked = cat_list[FirstCoolest(cat_list)]

C6_Witness ==
    /\ Returned /\ req.mood = None /\ IsColdText(req.weather)
    /\ Len(cat_list) = 3
    /\ cat_list[1].warmth = NoWarmth
    /\ cat_list[2].warmth = 1 /\ cat_list[3].warmth = 1
    /\ picked = cat_list[2]

\* C7: with no mood and no recognized weather, pick_from returns the first
\* item of the bucket, independent of color, tags and warmth.
C7_NoSignalFirst ==
    (Returned /\ req.mood = None /\ ~IsColdText(req.weather) /\ ~IsHotText(req.weather))
        => picked = cat_list[1]

C7_Witness ==
    /\ Returned /\ req.mood = None /\ req.weather = <<"r", "a", "i", "n", "y">>
    /\ Len(cat_list) = 2
    /\ cat_list[1].warmth = 1 /\ cat_list[2].warmth = 0
    /\ cat_list[1].color = None /\ cat_list[2].color # None
    /\ picked = cat_list[1]

-----------------------------------------------------------------------------
(* The endpoints *)

\* POST /api/wardrobe
add_wardrobe_item(item) ==
    /\ wardrobeitem' = create_document(wardrobeitem, item)
    /\ UNCHANGED <<outfit, inflight, last, cat_list, req, picked>>

\* POST /api/outfits/generate from the wardrobe read to the response: `items`
\* is what get_documents returned, `seen` the collection it was read from
Complete(c, r, items, seen) ==
    LET resp  == Respond(items, r)
        store == IF resp.status = 200
                   THEN PersistOutfit(outfit, OutfitDoc(r, resp.items))
                   ELSE outfit
    IN  /\ resp.status = 200 => Len(outfit) < MaxOutfits
        /\ outfit' = store
        /\ last' = [client |-> c, req |-> r, read |-> items, seen |-> seen,
                    before |-> Len(outfit), status |-> resp.status,
                    items |-> resp.items, title |-> resp.title,
                    id |-> IF resp.status = 200 THEN IdStr(store[Len(store)]._id) ELSE None]

\* POST /api/outfits/generate, served without interruption
generate_outfit(r) ==
    /\ Complete(1, r, get_documents(wardrobeitem, WardrobeQuery(r)), wardrobeitem)
    /\ UNCHANGED <<wardrobeitem, inflight, cat_list, req, picked>>

\* POST /api/outfits/generate of client c, up to the return of get_documents
GenerateRead(c, r) ==
    /\ inflight[c] = Idle
    /\ inflight' = [inflight EXCEPT ![c] =
                      [pc |-> "read", req |-> r, seen |-> wardrobeitem,
                       items |-> get_documents(wardrobeitem, WardrobeQuery(r))]]
    /\ UNCHANGED <<wardrobeitem, outfit, last, cat_list, req, picked>>

\* POST /api/outfits/generate of client c, from there to the response
GenerateFinish(c) ==
    /\ inflight[c] # Idle
    /\ Complete(c, inflight[c].req, inflight[c].items, inflight[c].seen)
    /\ inflight' = [inflight EXCEPT ![c] = Idle]
    /\ UNCHANGED <<wardrobeitem, cat_list, req, picked>>

InitStore ==
    /\ wardrobeitem = <<>>
    /\ outfit = <<>>
    /\ inflight = [c \in Clients |-> Idle]
    /\ last = NoCall
    /\ cat_list = <<>>
    /\ req = OutfitRequest(None, None, None, None)
    /\ picked = Pending

-----------------------------------------------------------------------------
(* One generate call on a stored wardrobe *)

Alice == <<"a", "@", "x">>
Bob   == <<"b", "@", "x">>

SysItems ==
    {Wardrobeitem(Alice, <<"t", "e", "e">>, <<"T", "o", "p">>, <<"b", "l">>, <<>>, 2),
     Wardrobeitem(Alice, <<"j", "e", "a", "n", "s">>, bottom, None, <<>>, NoWarmth),
     Wardrobeitem(Alice, <<"b", "o", "o", "t">>, footwear, None, <<>>, 5),
     Wardrobeitem(Alice, <<"c", "o", "a", "t">>, <<"O", "U", "T", "E", "R", "W", "E", "A", "R">>, None, <<>>, 9),
     Wardrobeitem(Alice, <<"h", "a", "t">>, <<"a", "c", "c", "e", "s", "s", "o", "r", "y">>, None, <<>>, NoWarmth)}

SysReqs ==
    {OutfitRequest(Alice, m, w, None) :
        m \in {None, <<"B", "l">>}, w \in {None, <<"C", "o", "l", "d">>, warm}}
    \cup {OutfitRequest(Bob, None, chilly, None)}

\* the wardrobe collection after any run of add_wardrobe_item calls
Wardrobes ==
    UNION {{[i \in 1..n |-> ("_id" :> i) @@ f[i]] : f \in [1..n -> SysItems]} : n \in 0..MaxItems}

InitGen ==
    /\ wardrobeitem \in Wardrobes
    /\ outfit = <<>>
    /\ inflight = [c \in Clients |-> Idle]
    /\ last = NoCall
    /\ cat_list = <<>>
    /\ req \in SysReqs
    /\ picked = Pending

GenerateOnce ==
    /\ last = NoCall
    /\ generate_outfit(req)

NextGen == GenerateOnce

SpecGen == InitGen /\ [][NextGen]_vars

-----------------------------------------------------------------------------
(* Requests of several clients interleaved *)

SharedItems ==
    {Wardrobeitem(Alice, <<"t", "e", "e">>, top, None, <<>>, 2),
     Wardrobeitem(Alice, <<"c", "o", "a", "t">>, outerwear, None, <<>>, 9),
     Wardrobeitem(Bob, <<"v", "e", "s", "t">>, top, None, <<>>, 3)}

SharedReqs ==
    {OutfitRequest(Alice, None, cold, None), OutfitRequest(Bob, None, None, None)}

NextShared ==
    \/ \E it \in SharedItems : Len(wardrobeitem) < MaxShared /\ add_wardrobe_item(it)
    \/ \E c \in Clients, r \in SharedReqs : GenerateRead(c, r)
    \/ \E c \in Clients : GenerateFinish(c)

SpecShared == InitStore /\ [][NextShared]_vars

-----------------------------------------------------------------------------
(* What one generate call promises, stated on the stored wardrobe *)

Called == last.status # 0

\* the stored documents of the owner the last call was made for
Owned == SelectSeq(wardrobeitem, LAMBDA d : d.owner_email = last.req.email)

\* the category label compared lower-cased
InBucket(d, cat) == Lower(d.category) = cat

HasBucket(docs, cat) == \E k \in 1..Len(docs) : InBucket(docs[k], cat)

\* the slot an item of a selection fills, 0 when it fills none
SlotOf(x) ==
    IF InBucket(x, top) THEN 1
    ELSE IF InBucket(x, bottom) THEN 2
    ELSE IF InBucket(x, footwear) THEN 3
    ELSE IF InBucket(x, outerwear) THEN 4
    ELSE 0

\* C1: a generate call for an owner with no stored wardrobe item answers 404
\* and inserts no outfit, whatever mood, weather and event are.
C1_EmptyWardrobeNotFound ==
    (Called /\ Owned = <<>>) => (last.status = 404 /\ outfit = <<>>)

C1_Witness ==
    /\ Called /\ Owned = <<>> /\ wardrobeitem # <<>>
    /\ last.req.weather # None
    /\ last.status = 404

\* C2: when the owner's wardrobe holds an item whose lower-cased category is
\* top, bottom or footwear, generate answers 200 with a non-empty selection,
\* whatever mood and weather are.
C2_SlotItemGivesSelection ==
    (Called /\ (HasBucket(Owned, top) \/ HasBucket(Owned, bottom) \/ HasBucket(Owned, footwear)))
        => (last.status = 200 /\ last.items # <<>>)

C2_Witness ==
    /\ Called /\ Len(Owned) = 2
    /\ Owned[1].category = <<"a", "c", "c", "e", "s", "s", "o", "r", "y">>
    /\ Owned[2].category = <<"T", "o", "p">>
    /\ last.req.mood # None /\ last.req.weather = warm
    /\ last.status = 200 /\ Len(last.items) = 1

\* C3: when the owner's wardrobe is non-empty but holds no top, bottom or
\* footwear item, and the weather is absent or not cold/chilly, generate
\* answers 400 and inserts no outfit, also when outerwear is stored.
C3_NoSlotItemInvalidState ==
    (/\ Called /\ Owned # <<>>
     /\ ~HasBucket(Owned, top) /\ ~HasBucket(Owned, bottom) /\ ~HasBucket(Owned, footwear)
     /\ ~IsColdText(last.req.weather))
        => (last.status = 400 /\ outfit = <<>>)

C3_Witness ==
    /\ Called /\ HasBucket(Owned, outerwear)
    /\ ~HasBucket(Owned, top) /\ ~HasBucket(Owned, bottom) /\ ~HasBucket(Owned, footwear)
    /\ last.req.weather = warm
    /\ last.status = 400 /\ outfit = <<>>

\* C8: a selection, returned and persisted, lists at most one item per slot
\* in the order top, bottom, footwear, outerwear, so at most four items; it
\* holds an outerwear item only if the weather is cold/chilly, and then
\* exactly one, last, whenever the owner stores outerwear.
C8_OuterwearOnlyWhenCold ==
    (Called /\ last.status = 200) =>
        /\ Len(last.items) <= 4
        /\ \A i \in 1..Len(last.items) : SlotOf(last.items[i]) # 0
        /\ \A i, j \in 1..Len(last.items) :
              i < j => SlotOf(last.items[i]) < SlotOf(last.items[j])
        /\ HasBucket(last.items, outerwear) => IsColdText(last.req.weather)
        /\ (IsColdText(last.req.weather) /\ HasBucket(Owned, outerwear))
              => InBucket(last.items[Len(last.items)], outerwear)
        /\ outfit[Len(outfit)].items = last.items

C8_Witness ==
    /\ Called /\ last.status = 200
    /\ IsColdText(last.req.weather)
    /\ Len(last.items) = 4
    /\ InBucket(last.items[4], outerwear)
    /\ ~InBucket(wardrobeitem[4], outerwear)

-----------------------------------------------------------------------------
(* What interleaved calls promise *)

\* client c's generate call returns in this step
Finishes(c) == inflight[c] # Idle /\ inflight'[c] = Idle

\* C9: a generate call that repeats the request of the call completed just
\* before it, on the same wardrobe, returns the same selection and title;
\* each of the two inserts one outfit record, so the store ends two records
\* longer and the earlier records are as they were.
C9_RepeatInsertsAgain ==
    [][\A c \in Clients :
         (/\ Finishes(c)
          /\ last.status = 200
          /\ inflight[c].req = last.req
          /\ inflight[c].items = last.read)
            => /\ last'.status = 200
               /\ last'.items = last.items
               /\ last'.title = last.title
               /\ last'.id # last.id
               /\ Len(outfit') = last.before + 2
               /\ SubSeq(outfit', 1, Len(outfit)) = outfit
               /\ outfit'[Len(outfit')].items = last.items
               /\ outfit'[Len(outfit')].title = last.title]_vars

C9_Witness ==
    /\ Called /\ last.status = 200 /\ last.before = 1
    /\ Len(outfit) = 2
    /\ outfit[1].owner_email = outfit[2].owner_email
    /\ outfit[1].weather = outfit[2].weather
    /\ outfit[1].items = outfit[2].items
    /\ outfit[1].title = outfit[2].title
    /\ outfit[1]._id # outfit[2]._id

\* C10: every item of a returned or persisted outfit is a stored wardrobe
\* item, of the outfit's owner, that was in the collection when the call
\* read it; no step of a generate call changes the wardrobe collection.
C10_OwnerIsolation ==
    [][\A c \in Clients :
         /\ inflight'[c] # inflight[c] => wardrobeitem' = wardrobeitem
         /\ (inflight[c] = Idle /\ inflight'[c] # Idle) => inflight'[c].seen = wardrobeitem
         /\ Finishes(c) =>
              /\ last'.seen = inflight[c].seen
              /\ \A i \in 1..Len(last'.items) :
                    \E k \in 1..Len(last'.seen) :
                       /\ last'.seen[k].owner_email = last'.req.email
                       /\ Strip(last'.seen[k]) = last'.items[i]
              /\ IF last'.status = 200
                   THEN /\ Len(outfit') = Len(outfit) + 1
                        /\ outfit'[Len(outfit')].owner_email = last'.req.email
                        /\ outfit'[Len(outfit')].items = last'.items
                   ELSE outfit' = outfit]_vars

C10_Witness ==
    /\ Called /\ last.status = 200 /\ last.req.email = Alice
    /\ Len(last.seen) = 2
    /\ last.seen[1].owner_email = Bob /\ InBucket(last.seen[1], top)
    /\ last.seen[2].owner_email = Alice /\ InBucket(last.seen[2], top)
    /\ last.items = <<Strip(last.seen[2])>>

=============================================================================
